---- MODULE Spec2Model ----
(***************************************************************************)
(* Live AQI aggregation pipeline of services/aqiService (fetchLiveCityAQI  *)
(* and the intelligence engine it calls), with the browser's localStorage  *)
(* as the two-slot resilient cache and the WAQI endpoints as environment.  *)
(*                                                                         *)
(* Strings that the code parses or formats (station AQI readings, the      *)
(* stored last-valid value) are sequences of one-character strings, so     *)
(* parseInt and Number.toString are computed rather than assumed.          *)
(* JavaScript numbers are records: Num(n) for an integer, NaN for NaN.     *)
(***************************************************************************)
EXTENDS Integers, Sequences, FiniteSets, TLC

VARIABLES
    localStorage,   \* key -> stored string (present keys only)
    clock,          \* Date.now(), in ms since local midnight
    pc,             \* per caller: "idle" | "bounds" | "feed" (which await it is suspended at)
    now,            \* per caller: the `now` captured at line 106 of the running call
    response,       \* per caller: the settled request whose continuation has not run yet
    ret,            \* the most recently settled call: its promise and final locals
                    \* (for a function applied on its own: its arguments and value)
    forecastCache,  \* the Map of services/geminiService: entries {key, data, timestamp}
    args            \* per pending getAqiForecast invocation: its arguments

vars == <<localStorage, clock, pc, now, response, ret, forecastCache, args>>

-----------------------------------------------------------------------------
(* Bounds of the model *)

MaxStations == 2
MaxTicks == 2

-----------------------------------------------------------------------------
(* Program constants *)

CACHE_KEY == "pureair_live_aqi"
LAST_VALID_AQI_KEY == "pureair_last_valid_aqi"
CacheTtlMs == 10 * 60 * 1000
DefaultAqi == 345

\* The two call sites of fetchLiveCityAQI in App: the init effect and the
\* refresh interval callback.
Callers == {"init", "timer"}

-----------------------------------------------------------------------------
(* JavaScript values *)

NaN == [k |-> "NaN", v |-> 0]
Num(n) == [k |-> "num", v |-> n]
JsonNull == [k |-> "null", v |-> 0]

isNaN(x) == x.k = "NaN"
\* x > n and x >= n for a JS number x and an integer literal n: false on NaN;
\* JSON null coerces to 0.
JsGt(x, n) == x.k # "NaN" /\ x.v > n
JsGe(x, n) == x.k # "NaN" /\ x.v >= n
JsSub(x, y) == IF isNaN(x) \/ isNaN(y) THEN NaN ELSE Num(x.v - y.v)

None == [has |-> FALSE]
Some(x) == [has |-> TRUE, v |-> x]

Digits == <<"0", "1", "2", "3", "4", "5", "6", "7", "8", "9">>
DigitVal ==
    [c \in {"0", "1", "2", "3", "4", "5", "6", "7", "8", "9"} |->
        CHOOSE d \in 0..9 : Digits[d + 1] = c]
IsDigit(c) == c \in DOMAIN DigitVal

\* The index of the first character of s at or after i that is no blank.
RECURSIVE SkipBlanks(_, _)
SkipBlanks(s, i) ==
    IF i <= Len(s) /\ s[i] = " " THEN SkipBlanks(s, i + 1) ELSE i

\* The digits of s from index i on, read left to right onto acc; NaN when
\* the first character is no digit (any = FALSE).
RECURSIVE ReadDigits(_, _, _, _)
ReadDigits(s, i, acc, any) ==
    IF i <= Len(s) /\ IsDigit(s[i])
    THEN ReadDigits(s, i + 1, 10 * acc + DigitVal[s[i]], TRUE)
    ELSE IF any THEN Num(acc) ELSE NaN

\* parseInt(string), radix 10: leading blanks, an optional sign, then the
\* longest run of digits; NaN when there is no digit.
parseInt(s) ==
    LET i == SkipBlanks(s, 1)
        signed == i <= Len(s) /\ s[i] \in {"-", "+"}
        n == ReadDigits(s, IF signed THEN i + 1 ELSE i, 0, FALSE)
    IN  IF signed /\ s[i] = "-" /\ ~isNaN(n) THEN Num(0 - n.v) ELSE n

RECURSIVE NatToString(_)
NatToString(n) ==
    IF n < 10 THEN <<Digits[n + 1]>>
    ELSE NatToString(n \div 10) \o <<Digits[(n % 10) + 1]>>

\* Number.prototype.toString for the values currentAqi can hold.
NumberToString(x) ==
    IF isNaN(x) THEN <<"N", "a", "N">>
    ELSE IF x.v < 0 THEN <<"-">> \o NatToString(0 - x.v)
    ELSE NatToString(x.v)

\* if (s): a string is truthy unless it is empty.
Truthy(s) == s # <<>>

-----------------------------------------------------------------------------
(* localStorage *)

EmptyStorage == [k \in {} |-> <<>>]
getItem(store, key) == IF key \in DOMAIN store THEN Some(store[key]) ELSE None
setItem(store, key, val) ==
    [k \in DOMAIN store \cup {key} |-> IF k = key THEN val ELSE store[k]]

-----------------------------------------------------------------------------
(* Clock *)

TickMs == 5 * 60 * 1000
StartClock == (9 * 60 + 50) * 60 * 1000
MsPerHour == 60 * 60 * 1000
MsPerMinute == 60 * 1000

getHours(t) == (t \div MsPerHour) % 24
getMinutes(t) == (t \div MsPerMinute) % 60
getSeconds(t) == (t \div 1000) % 60

-----------------------------------------------------------------------------
(* Classification helpers *)

\* Lower bounds inclusive instead of exclusive.
getStatusFromAQIInclusive(aqi) ==
    IF JsGe(aqi, 450) THEN "HAZARDOUS"
    ELSE IF JsGe(aqi, 400) THEN "SEVERE"
    ELSE IF JsGe(aqi, 300) THEN "POOR"
    ELSE IF JsGe(aqi, 200) THEN "POOR"
    ELSE IF JsGe(aqi, 100) THEN "MODERATE"
    ELSE "GOOD"

getStatusFromAQI(aqi) ==
    IF JsGt(aqi, 450) THEN "HAZARDOUS"
    ELSE IF JsGt(aqi, 400) THEN "SEVERE"
    ELSE IF JsGt(aqi, 300) THEN "POOR"
    ELSE IF JsGt(aqi, 200) THEN "POOR"
    ELSE IF JsGt(aqi, 100) THEN "MODERATE"
    ELSE "GOOD"

\* Stage IV only above 450, not at 450.
getGRAPStageAbove450(aqi) ==
    IF JsGt(aqi, 450) THEN
        [stage |-> 4, label |-> "GRAP Stage IV",
         description |-> "Severe+: Truck Entry Ban, Odd-Even Scheme"]
    ELSE IF JsGe(aqi, 401) THEN
        [stage |-> 3, label |-> "GRAP Stage III",
         description |-> "Severe: Construction & Demolition Ban"]
    ELSE IF JsGe(aqi, 301) THEN
        [stage |-> 2, label |-> "GRAP Stage II",
         description |-> "Very Poor: Diesel Gen Set Ban, Parking Fee Hike"]
    ELSE IF JsGe(aqi, 201) THEN
        [stage |-> 1, label |-> "GRAP Stage I",
         description |-> "Poor: Dust Control, Mechanized Sweeping"]
    ELSE
        [stage |-> 0, label |-> "No GRAP Active",
         description |-> "Standard Pollution Control Measures"]

getGRAPStage(aqi) ==
    IF JsGe(aqi, 450) THEN
        [stage |-> 4, label |-> "GRAP Stage IV",
         description |-> "Severe+: Truck Entry Ban, Odd-Even Scheme"]
    ELSE IF JsGe(aqi, 401) THEN
        [stage |-> 3, label |-> "GRAP Stage III",
         description |-> "Severe: Construction & Demolition Ban"]
    ELSE IF JsGe(aqi, 301) THEN
        [stage |-> 2, label |-> "GRAP Stage II",
         description |-> "Very Poor: Diesel Gen Set Ban, Parking Fee Hike"]
    ELSE IF JsGe(aqi, 201) THEN
        [stage |-> 1, label |-> "GRAP Stage I",
         description |-> "Poor: Dust Control, Mechanized Sweeping"]
    ELSE
        [stage |-> 0, label |-> "No GRAP Active",
         description |-> "Standard Pollution Control Measures"]

\* A dead band of fifty instead of five.
TrendWideBand(aqi, last) ==
    IF last.has /\ Truthy(last.v) THEN
        LET delta == JsSub(aqi, parseInt(last.v))
        IN  IF JsGt(delta, 50) THEN "worsening"
            ELSE IF delta.k # "NaN" /\ delta.v < -50 THEN "improving"
            ELSE "stable"
    ELSE "stable"

\* The difference taken the other way round.
TrendSwapped(aqi, last) ==
    IF last.has /\ Truthy(last.v) THEN
        LET delta == JsSub(parseInt(last.v), aqi)
        IN  IF JsGt(delta, 5) THEN "worsening"
            ELSE IF delta.k # "NaN" /\ delta.v < -5 THEN "improving"
            ELSE "stable"
    ELSE "stable"

\* Trend of aqi against the stored last-valid string (absent or empty: stable).
Trend(aqi, last) ==
    IF last.has /\ Truthy(last.v) THEN
        LET delta == JsSub(aqi, parseInt(last.v))
        IN  IF JsGt(delta, 5) THEN "worsening"
            ELSE IF delta.k # "NaN" /\ delta.v < -5 THEN "improving"
            ELSE "stable"
    ELSE "stable"

\* The night band raises the prediction whatever the trend.
PredictionIgnoresTrend(hour, trend) ==
    IF hour >= 22 \/ hour <= 9 THEN "increasing"
    ELSE IF hour >= 12 /\ hour <= 17 THEN "decreasing"
    ELSE "stable"

Prediction(hour, trend) ==
    IF (hour >= 22 \/ hour <= 9) /\ trend # "improving" THEN "increasing"
    ELSE IF hour >= 12 /\ hour <= 17 THEN "decreasing"
    ELSE "stable"

\* The thresholds taken as inclusive lower bounds.
ExposureInclusive(aqi) ==
    IF JsGe(aqi, 300) THEN
        [exposureMinutes |-> "0",
         sensitiveGroupWarning |-> "CRITICAL: Immediate Indoor Confinement",
         recommendation |-> [mask |-> "N95/N99 Mandatory",
                             activity |-> "Avoid all outdoor exertion",
                             school |-> "Remote Learning Recommended"]]
    ELSE IF JsGe(aqi, 200) THEN
        [exposureMinutes |-> "15",
         sensitiveGroupWarning |-> "High Risk: Asthma/Elderly/Kids stay indoors",
         recommendation |-> [mask |-> "N95 Recommended",
                             activity |-> "No outdoor exercise",
                             school |-> "Suspend Outdoor Sports"]]
    ELSE IF JsGe(aqi, 150) THEN
        [exposureMinutes |-> "30",
         sensitiveGroupWarning |-> "Moderate Risk for sensitive lungs",
         recommendation |-> [mask |-> "Mask recommended for prolonged exposure",
                             activity |-> "Reduce intensity",
                             school |-> "Limit Recess"]]
    ELSE IF JsGe(aqi, 100) THEN
        [exposureMinutes |-> "60",
         sensitiveGroupWarning |-> "Sensitive groups reduce prolonged exertion",
         recommendation |-> [mask |-> "Optional for sensitive groups",
                             activity |-> "Take breaks",
                             school |-> "Open"]]
    ELSE
        [exposureMinutes |-> "Unlimited",
         sensitiveGroupWarning |-> "None",
         recommendation |-> [mask |-> "None required",
                             activity |-> "Normal outdoor activity",
                             school |-> "Open"]]

\* exposureMinutes is number | string: minutes as a decimal string here.
Exposure(aqi) ==
    IF JsGt(aqi, 300) THEN
        [exposureMinutes |-> "0",
         sensitiveGroupWarning |-> "CRITICAL: Immediate Indoor Confinement",
         recommendation |-> [mask |-> "N95/N99 Mandatory",
                             activity |-> "Avoid all outdoor exertion",
                             school |-> "Remote Learning Recommended"]]
    ELSE IF JsGt(aqi, 200) THEN
        [exposureMinutes |-> "15",
         sensitiveGroupWarning |-> "High Risk: Asthma/Elderly/Kids stay indoors",
         recommendation |-> [mask |-> "N95 Recommended",
                             activity |-> "No outdoor exercise",
                             school |-> "Suspend Outdoor Sports"]]
    ELSE IF JsGt(aqi, 150) THEN
        [exposureMinutes |-> "30",
         sensitiveGroupWarning |-> "Moderate Risk for sensitive lungs",
         recommendation |-> [mask |-> "Mask recommended for prolonged exposure",
                             activity |-> "Reduce intensity",
                             school |-> "Limit Recess"]]
    ELSE IF JsGt(aqi, 100) THEN
        [exposureMinutes |-> "60",
         sensitiveGroupWarning |-> "Sensitive groups reduce prolonged exertion",
         recommendation |-> [mask |-> "Optional for sensitive groups",
                             activity |-> "Take breaks",
                             school |-> "Open"]]
    ELSE
        [exposureMinutes |-> "Unlimited",
         sensitiveGroupWarning |-> "None",
         recommendation |-> [mask |-> "None required",
                             activity |-> "Normal outdoor activity",
                             school |-> "Open"]]

\* calculateIntelligence(aqi), reading the store and the clock as the code does.
calculateIntelligence(aqi, store, t) ==
    LET trend == Trend(aqi, getItem(store, LAST_VALID_AQI_KEY))
        e == Exposure(aqi)
    IN  [riskLevel |-> getStatusFromAQI(aqi),
         trend |-> trend,
         exposureMinutes |-> e.exposureMinutes,
         sensitiveGroupWarning |-> e.sensitiveGroupWarning,
         recommendation |-> e.recommendation,
         prediction |-> Prediction(getHours(t), trend),
         grap |-> getGRAPStage(aqi)]

-----------------------------------------------------------------------------
(* Upstream telemetry API: what the two requests can come back with *)

\* The aqi field of a station or of the feed, as the API sends it: "-" when
\* the station reports nothing.
StationAqis == { <<"-">>, <<"0">>, <<"9", "5">>, <<"3", "5", "0">> }
FeedAqis == StationAqis \cup { <<"-", "7">> }

StationLists == UNION { [1..n -> StationAqis] : n \in 0..MaxStations }

NetworkError == [t |-> "neterr"]    \* fetch() rejects
BadBody == [t |-> "badbody"]        \* res.json() rejects
NullBody == [t |-> "null"]          \* the body is the JSON literal null
Thrown == {NetworkError, BadBody, NullBody}

\* json of the bounds request: data is the list of the stations' aqi fields.
BoundsJson ==
    { [t |-> "json", status |-> "ok", isArray |-> TRUE, data |-> l] :
        l \in StationLists }
    \cup { [t |-> "json", status |-> st, isArray |-> FALSE, data |-> <<>>] :
        st \in {"ok", "error"} }
    \cup { [t |-> "json", status |-> "error", isArray |-> TRUE,
            data |-> << <<"3", "5", "0">> >>] }

BoundsResponses == Thrown \cup BoundsJson

\* jsonFallback of the single-feed request.
FeedJson ==
    { [t |-> "json", status |-> st, hasData |-> FALSE, aqi |-> <<>>,
       dominentpol |-> "", hasCity |-> FALSE, city |-> ""] :
        st \in {"ok", "error"} }
    \cup { [t |-> "json", status |-> "ok", hasData |-> TRUE, aqi |-> a,
            dominentpol |-> f.d, hasCity |-> f.c,
            city |-> IF f.c THEN "Anand Vihar, Delhi" ELSE ""] :
        a \in FeedAqis,
        f \in { [d |-> "", c |-> TRUE], [d |-> "pm10", c |-> TRUE],
                [d |-> "pm10", c |-> FALSE] } }

FeedResponses == Thrown \cup FeedJson

-----------------------------------------------------------------------------
(* JSON text of the live slot *)

NotJson == [t |-> "text"]                          \* unparsable
EmptyString == [t |-> "empty"]                     \* ""
JsonLiteralNull == [t |-> "json", shape |-> "null"]
JsonEmptyObject == [t |-> "json", shape |-> "object"]

\* Only the reading is cached, not the full LiveAqiData.
JSONstringifyAqiOnly(entry) ==
    [t |-> "json", shape |-> "entry",
     data |-> [aqi |-> IF isNaN(entry.data.aqi) THEN JsonNull ELSE entry.data.aqi],
     timestamp |-> entry.timestamp]

\* JSON.stringify({data, timestamp}): a NaN number is written as null.
JSONstringify(entry) ==
    [t |-> "json", shape |-> "entry",
     data |-> [entry.data EXCEPT !.aqi = IF isNaN(@) THEN JsonNull ELSE @],
     timestamp |-> entry.timestamp]

ParseThrows(text) == text.t = "text"
TextTruthy(text) == text.t # "empty"

Undefined == [t |-> "undefined"]

-----------------------------------------------------------------------------
(* fetchLiveCityAQI *)

NoRet ==
    [by |-> "none", state |-> "none", path |-> "none", value |-> Undefined,
     failsafe |-> FALSE, last |-> None, requests |-> <<>>, writes |-> <<>>]

\* A freshness window of five minutes instead of ten.
CacheHitShortTtl(store, t) ==
    LET cached == getItem(store, CACHE_KEY)
    IN  /\ cached.has
        /\ TextTruthy(cached.v)
        /\ ~ParseThrows(cached.v)
        /\ cached.v.shape = "entry"
        /\ t - cached.v.timestamp < 5 * 60 * 1000
        /\ JsGt(cached.v.data.aqi, 0)

\* The live slot counted as fresh at exactly the TTL.
CacheHitInclusiveTtl(store, t) ==
    LET cached == getItem(store, CACHE_KEY)
    IN  /\ cached.has
        /\ TextTruthy(cached.v)
        /\ ~ParseThrows(cached.v)
        /\ cached.v.shape = "entry"
        /\ t - cached.v.timestamp <= CacheTtlMs
        /\ JsGt(cached.v.data.aqi, 0)

\* Lines 109-117: the live slot holds a parsable entry younger than the TTL
\* whose aqi is positive. Any exception of the block is swallowed (a miss).
CacheHit(store, t) ==
    LET cached == getItem(store, CACHE_KEY)
    IN  /\ cached.has
        /\ TextTruthy(cached.v)
        /\ ~ParseThrows(cached.v)
        /\ cached.v.shape = "entry"
        /\ t - cached.v.timestamp < CacheTtlMs
        /\ JsGt(cached.v.data.aqi, 0)

\* The smallest reading instead of the largest.
MathMin(seq) ==
    CHOOSE m \in { seq[i].v : i \in 1..Len(seq) } :
        \A i \in 1..Len(seq) : m <= seq[i].v

MathMax(seq) ==
    CHOOSE m \in { seq[i].v : i \in 1..Len(seq) } :
        \A i \in 1..Len(seq) : seq[i].v <= m

\* The aggregation asking for more than one station.
AggregateBoundsSeveralStations(body) ==
    IF body.status = "ok" /\ body.isArray /\ Len(body.data) > 1 THEN
        LET parsed == [i \in 1..Len(body.data) |-> parseInt(body.data[i])]
            validStations == SelectSeq(parsed, LAMBDA val : ~isNaN(val) /\ val.v > 0)
        IN  IF Len(validStations) > 0 THEN Num(MathMax(validStations)) ELSE Num(0)
    ELSE Num(0)

\* Lines 124-140: currentAqi after the bounds aggregation (0 when it yields nothing).
AggregateBounds(body) ==
    IF body.status = "ok" /\ body.isArray /\ Len(body.data) > 0 THEN
        LET parsed == [i \in 1..Len(body.data) |-> parseInt(body.data[i])]
            validStations == SelectSeq(parsed, LAMBDA val : ~isNaN(val) /\ val.v > 0)
        IN  IF Len(validStations) > 0 THEN Num(MathMax(validStations)) ELSE Num(0)
    ELSE Num(0)

\* Lines 154-158.
NeedsFailsafe(currentAqi) == isNaN(currentAqi) \/ currentAqi.v <= 0

\* No constant default: the failed reading is kept when nothing is stored.
FailsafeNoDefault(currentAqi, store) ==
    IF NeedsFailsafe(currentAqi) THEN
        LET last == getItem(store, LAST_VALID_AQI_KEY)
        IN  IF last.has /\ Truthy(last.v) THEN parseInt(last.v) ELSE Num(0)
    ELSE currentAqi

\* The stored value is never consulted.
FailsafeConstantOnly(currentAqi, store) ==
    IF NeedsFailsafe(currentAqi) THEN Num(DefaultAqi) ELSE currentAqi

Failsafe(currentAqi, store) ==
    IF NeedsFailsafe(currentAqi) THEN
        LET last == getItem(store, LAST_VALID_AQI_KEY)
        IN  IF last.has /\ Truthy(last.v) THEN parseInt(last.v) ELSE Num(DefaultAqi)
    ELSE currentAqi

\* Lines 164-173: the result object, built after lastValid was written.
LiveAqiDataOf(currentAqi, dominant, city, store, t) ==
    [aqi |-> currentAqi,
     status |-> getStatusFromAQI(currentAqi),
     dominant |-> dominant,
     city |-> city,
     time |-> <<getHours(t), getMinutes(t)>>,
     intelligence |-> calculateIntelligence(currentAqi, store, t)]

\* The call that caches its result without recording it as last valid.
ResolveLiveOnly(p, aqi0, dominant, city, requests) ==
    LET currentAqi == Failsafe(aqi0, localStorage)
        result == LiveAqiDataOf(currentAqi, dominant, city, localStorage, clock)
    IN  /\ localStorage' = setItem(localStorage, CACHE_KEY,
                                   JSONstringify([data |-> result, timestamp |-> now[p]]))
        /\ ret' = [by |-> p, state |-> "fulfilled", path |-> "resolved",
                   value |-> result,
                   failsafe |-> NeedsFailsafe(aqi0),
                   last |-> IF NeedsFailsafe(aqi0)
                            THEN getItem(localStorage, LAST_VALID_AQI_KEY) ELSE None,
                   requests |-> requests,
                   writes |-> <<CACHE_KEY>>]
        /\ pc' = [pc EXCEPT ![p] = "idle"]
        /\ now' = [now EXCEPT ![p] = 0]

\* Lines 153-178: failsafe, the two writes, the result.
Resolve(p, aqi0, dominant, city, requests) ==
    LET currentAqi == Failsafe(aqi0, localStorage)
        store1 == setItem(localStorage, LAST_VALID_AQI_KEY, NumberToString(currentAqi))
        result == LiveAqiDataOf(currentAqi, dominant, city, store1, clock)
        store2 == setItem(store1, CACHE_KEY,
                          JSONstringify([data |-> result, timestamp |-> now[p]]))
    IN  /\ localStorage' = store2
        /\ ret' = [by |-> p, state |-> "fulfilled", path |-> "resolved",
                   value |-> result,
                   failsafe |-> NeedsFailsafe(aqi0),
                   last |-> IF NeedsFailsafe(aqi0)
                            THEN getItem(localStorage, LAST_VALID_AQI_KEY) ELSE None,
                   requests |-> requests,
                   writes |-> <<LAST_VALID_AQI_KEY, CACHE_KEY>>]
        /\ pc' = [pc EXCEPT ![p] = "idle"]
        /\ now' = [now EXCEPT ![p] = 0]

\* Lines 186-194.
HardFallback ==
    [aqi |-> Num(DefaultAqi),
     status |-> "SEVERE",
     dominant |-> "PM2.5",
     city |-> "Delhi (Offline Mode)",
     time |-> <<getHours(clock), getMinutes(clock), getSeconds(clock)>>,
     intelligence |-> calculateIntelligence(Num(DefaultAqi), localStorage, clock)]

\* The catch block serving the cached entry only while it is fresh.
CatchFreshOnly(p, requests) ==
    LET use == CacheHit(localStorage, clock)
        value == IF use THEN localStorage[CACHE_KEY].data ELSE HardFallback
    IN  /\ ret' = [by |-> p, state |-> "fulfilled",
                   path |-> "caught", value |-> value,
                   failsafe |-> FALSE, last |-> None,
                   requests |-> requests, writes |-> <<>>]
        /\ pc' = [pc EXCEPT ![p] = "idle"]
        /\ now' = [now EXCEPT ![p] = 0]
        /\ UNCHANGED localStorage

\* Lines 180-195: the catch block. JSON.parse(cached).data throws on text
\* that is no JSON and on the literal null; an object without data gives
\* undefined.
Catch(p, requests) ==
    LET cached == getItem(localStorage, CACHE_KEY)
        use == cached.has /\ TextTruthy(cached.v)
        throws == use /\ (ParseThrows(cached.v) \/ cached.v.shape = "null")
        value == IF ~use THEN HardFallback
                 ELSE IF throws \/ cached.v.shape = "object" THEN Undefined
                 ELSE cached.v.data
    IN  /\ ret' = [by |-> p, state |-> IF throws THEN "rejected" ELSE "fulfilled",
                   path |-> "caught", value |-> value,
                   failsafe |-> FALSE, last |-> None,
                   requests |-> requests, writes |-> <<>>]
        /\ pc' = [pc EXCEPT ![p] = "idle"]
        /\ now' = [now EXCEPT ![p] = 0]
        /\ UNCHANGED localStorage

\* Lines 105-121: a call captures now, checks the live slot, and either
\* returns the cached data or issues the bounds request.
Call(p) ==
    /\ pc[p] = "idle"
    /\ IF CacheHit(localStorage, clock) THEN
           /\ ret' = [NoRet EXCEPT !.by = p, !.state = "fulfilled", !.path = "cache",
                                   !.value = localStorage[CACHE_KEY].data]
           /\ UNCHANGED <<localStorage, pc, now>>
       ELSE
           /\ pc' = [pc EXCEPT ![p] = "bounds"]
           /\ now' = [now EXCEPT ![p] = clock]
           /\ UNCHANGED <<localStorage, ret>>
    /\ UNCHANGED <<clock, response, forecastCache, args>>

\* The awaited bounds request (fetch, then res.json()) settles with r.
BoundsResponds(p, r) ==
    /\ pc[p] = "bounds"
    /\ ~response[p].has
    /\ response' = [response EXCEPT ![p] = Some(r)]
    /\ UNCHANGED <<localStorage, clock, pc, now, ret, forecastCache, args>>

\* Lines 121-143: the continuation after the bounds request.
HandleBounds(p) ==
    /\ pc[p] = "bounds"
    /\ response[p].has
    /\ LET r == response[p].v
       IN  IF r \in Thrown THEN
               Catch(p, <<"bounds">>)
           ELSE
               LET currentAqi == AggregateBounds(r)
               IN  IF currentAqi = Num(0) THEN
                       /\ pc' = [pc EXCEPT ![p] = "feed"]
                       /\ UNCHANGED <<localStorage, now, ret>>
                   ELSE
                       Resolve(p, currentAqi, "PM2.5", "Delhi NCT", <<"bounds">>)
    /\ response' = [response EXCEPT ![p] = None]
    /\ UNCHANGED <<clock, forecastCache, args>>

\* The awaited single-feed request settles with r.
FeedResponds(p, r) ==
    /\ pc[p] = "feed"
    /\ ~response[p].has
    /\ response' = [response EXCEPT ![p] = Some(r)]
    /\ UNCHANGED <<localStorage, clock, pc, now, ret, forecastCache, args>>

\* Lines 143-151, then 153-178: the continuation after the single-feed
\* request. Reading data.aqi or data.city.name of a body that lacks them
\* throws.
HandleFeed(p) ==
    /\ pc[p] = "feed"
    /\ response[p].has
    /\ LET r == response[p].v
       IN  IF r \in Thrown \/ (r.status = "ok" /\ (~r.hasData \/ ~r.hasCity)) THEN
               Catch(p, <<"bounds", "feed">>)
           ELSE IF r.status = "ok" THEN
               Resolve(p, parseInt(r.aqi),
                       IF r.dominentpol # "" THEN r.dominentpol ELSE "PM2.5",
                       r.city, <<"bounds", "feed">>)
           ELSE
               Resolve(p, Num(0), "PM2.5", "Delhi NCT", <<"bounds", "feed">>)
    /\ response' = [response EXCEPT ![p] = None]
    /\ UNCHANGED <<clock, forecastCache, args>>

\* Time passes. The continuation of a settled await runs as a microtask,
\* before the clock moves on by a tick.
Tick ==
    /\ clock < StartClock + MaxTicks * TickMs
    /\ \A p \in Callers : ~response[p].has
    /\ clock' = clock + TickMs
    /\ UNCHANGED <<localStorage, pc, now, response, ret, forecastCache, args>>

-----------------------------------------------------------------------------
(* Specifications *)

InitCallers ==
    /\ clock = StartClock
    /\ pc = [p \in Callers |-> "idle"]
    /\ now = [p \in Callers |-> 0]
    /\ response = [p \in Callers |-> None]
    /\ ret = NoRet
    /\ forecastCache = {}
    /\ args = [p \in Callers |-> Undefined]

\* A first visit: nothing stored yet.
Init ==
    /\ localStorage = EmptyStorage
    /\ InitCallers

\* The init effect's call and the interval's calls are ten minutes apart:
\* one call runs at a time.
NoCallRunning == \A q \in Callers : pc[q] = "idle"

Next ==
    \/ \E p \in Callers : NoCallRunning /\ Call(p)
    \/ \E p \in Callers, r \in BoundsResponses : BoundsResponds(p, r)
    \/ \E p \in Callers : HandleBounds(p)
    \/ \E p \in Callers, r \in FeedResponses : FeedResponds(p, r)
    \/ \E p \in Callers : HandleFeed(p)
    \/ Tick

Spec == Init /\ [][Next]_vars

\* A returning visit: the two slots hold whatever an earlier session, another
\* version of the page or the user left there, well-formed or not.
StoredLastValid ==
    { <<>>, <<"a", "b", "c">>, <<"3", "5", "0">> }

StoredLiveEntry ==
    JSONstringify(
        [data |-> LiveAqiDataOf(Num(350), "PM2.5", "Delhi NCT",
                                setItem(EmptyStorage, LAST_VALID_AQI_KEY, <<"3", "5", "0">>),
                                StartClock - CacheTtlMs),
         timestamp |-> StartClock - CacheTtlMs])

\* An entry younger than the TTL whose reading is 0.
StoredZeroEntry ==
    JSONstringify(
        [data |-> LiveAqiDataOf(Num(0), "PM2.5", "Delhi NCT", EmptyStorage, StartClock),
         timestamp |-> StartClock])

StoredLive ==
    { EmptyString, NotJson, JsonLiteralNull, JsonEmptyObject, StoredLiveEntry,
      StoredZeroEntry }

StoredStates ==
    { EmptyStorage }
    \cup { setItem(EmptyStorage, LAST_VALID_AQI_KEY, l) : l \in StoredLastValid }
    \cup { setItem(EmptyStorage, CACHE_KEY, c) : c \in StoredLive }
    \cup { setItem(setItem(EmptyStorage, LAST_VALID_AQI_KEY, l), CACHE_KEY, c) :
             l \in StoredLastValid, c \in StoredLive }

InitStore ==
    /\ localStorage \in StoredStates
    /\ InitCallers

SpecStore == InitStore /\ [][Next]_vars

\* Calls that overlap: a request can outlast the refresh interval, so the
\* interval's call starts while the init effect's call is still waiting. Of
\* the responses, a sample: a network error, and station lists and feeds
\* with at most one reading.
OverlapBounds ==
    { NetworkError }
    \cup { r \in BoundsJson :
              /\ r.status = "ok" /\ r.isArray /\ Len(r.data) <= 1
              /\ \A i \in 1..Len(r.data) : r.data[i] \in { <<"9", "5">>, <<"3", "5", "0">> } }

OverlapFeed ==
    { NetworkError }
    \cup { r \in FeedJson :
              /\ r.status = "ok" /\ r.hasData /\ r.hasCity /\ r.dominentpol = "pm10"
              /\ r.aqi \in { <<"-">>, <<"9", "5">> } }

NextOverlap ==
    \/ \E p \in Callers : Call(p)
    \/ \E p \in Callers, r \in OverlapBounds : BoundsResponds(p, r)
    \/ \E p \in Callers : HandleBounds(p)
    \/ \E p \in Callers, r \in OverlapFeed : FeedResponds(p, r)
    \/ \E p \in Callers : HandleFeed(p)
    \/ Tick

SpecOverlap == Init /\ [][NextOverlap]_vars

\* The intelligence engine on its own: calculateIntelligence applied to an
\* aqi, with the last-valid slot and the hour of the day it reads drawn at
\* the start.
MaxAqi == 500

AqiInputs == 0..MaxAqi

PreviousValid == { <<"1", "5", "0">>, <<"3", "0", "0">>, <<"4", "4", "7">> }

IntelligenceStores ==
    { EmptyStorage }
    \cup { setItem(EmptyStorage, LAST_VALID_AQI_KEY, l) : l \in PreviousValid }

InitIntelligence ==
    /\ localStorage \in IntelligenceStores
    /\ clock \in { h * MsPerHour : h \in 0..23 }
    /\ pc = [p \in Callers |-> "idle"]
    /\ now = [p \in Callers |-> 0]
    /\ response = [p \in Callers |-> None]
    /\ ret = NoRet
    /\ forecastCache = {}
    /\ args = [p \in Callers |-> Undefined]

\* calculateIntelligence(aqi) is applied once and returns: ret holds the
\* argument and the value.
Analyse(aqi) ==
    /\ ret = NoRet
    /\ ret' = [by |-> "calculateIntelligence", state |-> "returned",
               aqi |-> aqi,
               value |-> calculateIntelligence(Num(aqi), localStorage, clock)]
    /\ UNCHANGED <<localStorage, clock, pc, now, response, forecastCache, args>>

NextIntelligence == \E aqi \in AqiInputs : Analyse(aqi)

SpecIntelligence == InitIntelligence /\ [][NextIntelligence]_vars

-----------------------------------------------------------------------------
(* interpolateWardAQI *)

\* Coordinates are on a grid of 0.001 degree, so squared distances are in
\* units of 0.000001 and the 0.00001 of line 284 is 10 of them. Weights and
\* sums are exact fractions <<numerator, denominator>>; the rounding error of
\* floating point is not modelled.
Epsilon == 10
MaxGrid == 2
MaxWardStations == 2

\* Fractions are kept in lowest terms, which leaves their value alone.
Abs(n) == IF n < 0 THEN 0 - n ELSE n

RECURSIVE Gcd(_, _)
Gcd(a, b) == IF b = 0 THEN a ELSE Gcd(b, a % b)

Lowest(x) ==
    LET g == Gcd(Abs(x[1]), x[2])
    IN  <<x[1] \div g, x[2] \div g>>

RatAdd(x, y) == Lowest(<<x[1] * y[2] + y[1] * x[2], x[2] * y[2]>>)
RatMul(x, y) == Lowest(<<x[1] * y[1], x[2] * y[2]>>)
RatDiv(x, y) ==
    LET g1 == Gcd(Abs(x[1]), Abs(y[1]))
        g2 == Gcd(x[2], y[2])
    IN  Lowest(<<(x[1] \div g1) * (y[2] \div g2), (x[2] \div g2) * (y[1] \div g1)>>)

\* Math.round of a fraction with a positive denominator: halves go up.
MathRound(x) == (2 * x[1] + x[2]) \div (2 * x[2])

\* Math.pow(d, 2) for the distance d of station s from the centroid.
SquaredDistance(s, wardCentroid) ==
    (s.lat - wardCentroid[1]) * (s.lat - wardCentroid[1])
    + (s.lon - wardCentroid[2]) * (s.lon - wardCentroid[2])

\* Line 284.
StationWeight(d2) == <<1, d2 + Epsilon>>

\* Lines 278-287: the forEach loop from station i on. minDist starts at
\* Infinity (None).
RECURSIVE ForEachStation(_, _, _, _)
ForEachStation(wardCentroid, stations, i, acc) ==
    IF i > Len(stations) THEN acc
    ELSE
        LET s == stations[i]
            d2 == SquaredDistance(s, wardCentroid)
            closer == ~acc.minDist.has \/ d2 < acc.minDist.v
            weight == StationWeight(d2)
        IN  ForEachStation(wardCentroid, stations, i + 1,
                [minDist |-> IF closer THEN Some(d2) ELSE acc.minDist,
                 nearestStationName |->
                     IF closer THEN s.stationName ELSE acc.nearestStationName,
                 totalWeight |-> RatAdd(acc.totalWeight, weight),
                 weightedAQISum |->
                     RatAdd(acc.weightedAQISum, RatMul(<<s.aqi, 1>>, weight))])

LoopStart(stations) ==
    [minDist |-> None,
     nearestStationName |-> stations[1].stationName,
     totalWeight |-> <<0, 1>>,
     weightedAQISum |-> <<0, 1>>]

\* The weighted sum is not divided by the total weight.
WeightedEstimateNotNormalised(wardCentroid, stations) ==
    LET acc == ForEachStation(wardCentroid, stations, 1, LoopStart(stations))
    IN  [aqi |-> MathRound(acc.weightedAQISum),
         nearest |-> acc.nearestStationName]

\* Lines 273-292: a non-empty station list.
WeightedEstimate(wardCentroid, stations) ==
    LET acc == ForEachStation(wardCentroid, stations, 1, LoopStart(stations))
    IN  [aqi |-> MathRound(RatDiv(acc.weightedAQISum, acc.totalWeight)),
         nearest |-> acc.nearestStationName]

\* The empty list gets a zero estimate and no sentinel label.
interpolateWardAQIUnguarded(wardCentroid, stations) ==
    IF Len(stations) = 0 THEN [aqi |-> 0, nearest |-> "undefined"]
    ELSE WeightedEstimate(wardCentroid, stations)

interpolateWardAQI(wardCentroid, stations) ==
    IF Len(stations) = 0 THEN [aqi |-> 150, nearest |-> "Historical Node"]
    ELSE WeightedEstimate(wardCentroid, stations)

Centroids == (0..MaxGrid) \X (0..MaxGrid)

StationPool ==
    { [lat |-> 0, lon |-> 0, aqi |-> 95, stationName |-> "Anand Vihar"],
      [lat |-> 2, lon |-> 1, aqi |-> 350, stationName |-> "RK Puram"],
      [lat |-> 1, lon |-> 2, aqi |-> 180, stationName |-> "ITO"] }

WardStationLists == UNION { [1..n -> StationPool] : n \in 0..MaxWardStations }

\* interpolateWardAQI is applied once and returns: ret holds the arguments
\* and the value.
Interpolate(wardCentroid, stations) ==
    /\ ret = NoRet
    /\ ret' = [by |-> "interpolateWardAQI", state |-> "returned",
               wardCentroid |-> wardCentroid, stations |-> stations,
               value |-> interpolateWardAQI(wardCentroid, stations)]
    /\ UNCHANGED <<localStorage, clock, pc, now, response, forecastCache, args>>

NextInterpolate ==
    \E wardCentroid \in Centroids, stations \in WardStationLists :
        Interpolate(wardCentroid, stations)

SpecInterpolate == Init /\ [][NextInterpolate]_vars

-----------------------------------------------------------------------------
(* calculateTrendSlope *)

MaxPoints == 3

\* Lines 253-259: the sums of the loop from index i on (x is i - 1, the
\* zero-based index).
RECURSIVE SlopeSums(_, _, _)
SlopeSums(history, i, acc) ==
    IF i > Len(history) THEN acc
    ELSE
        LET x == i - 1
            y == history[i].aqi
        IN  SlopeSums(history, i + 1,
                [sumX |-> acc.sumX + x, sumY |-> acc.sumY + y,
                 sumXY |-> acc.sumXY + x * y, sumX2 |-> acc.sumX2 + x * x])

\* The count n is left out of the numerator.
SlopeOfSumsWithoutCount(n, sums) ==
    LET denominator == n * sums.sumX2 - sums.sumX * sums.sumX
    IN  IF denominator = 0 THEN <<0, 1>>
        ELSE <<sums.sumXY - sums.sumX * sums.sumY, denominator>>

\* Lines 261-264: the quotient as an exact fraction.
SlopeOfSums(n, sums) ==
    LET denominator == n * sums.sumX2 - sums.sumX * sums.sumX
    IN  IF denominator = 0 THEN <<0, 1>>
        ELSE <<n * sums.sumXY - sums.sumX * sums.sumY, denominator>>

calculateTrendSlope(history) ==
    LET n == Len(history)
    IN  IF n < 2 THEN <<0, 1>>
        ELSE SlopeOfSums(n, SlopeSums(history, 1,
                 [sumX |-> 0, sumY |-> 0, sumXY |-> 0, sumX2 |-> 0]))

HistoryAqis == {90, 100, 110, 120, 130}
HistoryPoints == { [aqi |-> y] : y \in HistoryAqis }
Histories == UNION { [1..n -> HistoryPoints] : n \in 0..MaxPoints }

\* calculateTrendSlope is applied once and returns: ret holds the argument
\* and the value.
Slope(history) ==
    /\ ret = NoRet
    /\ ret' = [by |-> "calculateTrendSlope", state |-> "returned",
               history |-> history, value |-> calculateTrendSlope(history)]
    /\ UNCHANGED <<localStorage, clock, pc, now, response, forecastCache, args>>

NextSlope == \E history \in Histories : Slope(history)

SpecSlope == Init /\ [][NextSlope]_vars

-----------------------------------------------------------------------------
(* services/geminiService: the generative-model collaborator *)

FORECAST_CACHE_TTL == 15 * 60 * 1000
MaxForecastTicks == 3

\* An async entry point can be invoked again while an earlier invocation is
\* suspended at its await: two invocations may be pending at once.
Invocations == {"first", "second"}

\* What the awaited generateContent / sendMessage settles with: a rejection,
\* or a response whose text is undefined, empty, free text that is no JSON,
\* or JSON that follows the responseSchema of the request.
Rejected == [t |-> "rejected"]
Answer(text) == [t |-> "response", text |-> text]
JsonAnswer == [t |-> "json", shape |-> "answer"]
ModelOutcomes ==
    {Rejected} \cup { Answer(x) : x \in {Undefined, EmptyString, NotJson, JsonAnswer} }

\* if (text), text ? :, text || : undefined and "" are falsy.
HasText(text) == text # Undefined /\ TextTruthy(text)

\* JSON.parse(text.trim()) of a text that parses.
JSONparse(text) == [t |-> "parsed", shape |-> text.shape]

Fulfilled(fn, path, value) ==
    [by |-> fn, state |-> "fulfilled", path |-> path, value |-> value]
RejectedWith(fn, error) ==
    [by |-> fn, state |-> "rejected", path |-> "rethrown", value |-> error]

\* try { const text = (await ...).text;
\*       return text ? JSON.parse(text.trim()) : dflt }
\* catch { return fallback }
ParseOrDefault(fn, o, dflt, fallback) ==
    IF o = Rejected THEN Fulfilled(fn, "fallback", fallback)
    ELSE IF ~HasText(o.text) THEN Fulfilled(fn, "default", dflt)
    ELSE IF ParseThrows(o.text) THEN Fulfilled(fn, "fallback", fallback)
    ELSE Fulfilled(fn, "model", JSONparse(o.text))

\* try { return (await ...).text || dflt } catch { return fallback }
TextOrDefault(fn, o, dflt, fallback) ==
    IF o = Rejected THEN Fulfilled(fn, "fallback", fallback)
    ELSE IF ~HasText(o.text) THEN Fulfilled(fn, "default", dflt)
    ELSE Fulfilled(fn, "model", o.text)

getMitigationInsight(o) ==
    ParseOrDefault("getMitigationInsight", o,
        [text |-> "Monitoring environmental variables...", confidence |-> "Medium"],
        [text |-> "Decision support node is recalibrating.", confidence |-> "Low"])

\* The chat context: a selected ward or none, city data or none.
Wards == { [name |-> "Anand Vihar", aqi |-> 412, status |-> "SEVERE",
            primarySource |-> "Vehicular"] }
CityData == { [aqi |-> 0, status |-> "GOOD"], [aqi |-> 250, status |-> "POOR"] }
ChatContexts ==
    { [ward |-> w, cityData |-> d] :
        w \in {None} \cup { Some(x) : x \in Wards },
        d \in {None} \cup { Some(x) : x \in CityData } }

\* Lines 123-148: the offline text, by the values interpolated into it.
AssistantFallback(context) ==
    LET fallbackWard == IF context.ward.has THEN context.ward.v.name ELSE "Delhi NCT"
        fallbackAQI ==
            IF context.ward.has THEN context.ward.v.aqi
            ELSE IF context.cityData.has /\ context.cityData.v.aqi # 0
                 THEN context.cityData.v.aqi ELSE 350
        fallbackStatus ==
            IF context.ward.has THEN context.ward.v.status
            ELSE IF context.cityData.has THEN context.cityData.v.status ELSE "Severe"
        fallbackSource ==
            IF context.ward.has THEN context.ward.v.primarySource
            ELSE "Vehicular and Industrial Emissions"
    IN  [ward |-> fallbackWard, aqi |-> fallbackAQI, status |-> fallbackStatus,
         source |-> fallbackSource,
         riskLevel |-> IF fallbackAQI > 300 THEN "Severe"
                       ELSE IF fallbackAQI > 200 THEN "Moderate" ELSE "Low",
         mitigation |-> IF fallbackAQI > 300 THEN "Immediate restriction"
                        ELSE "Reduce prolonged outdoor exertion"]

getAssistantResponse(context, o) ==
    TextOrDefault("getAssistantResponse", o,
        "The Intelligence Console is recalibrating connectivity. Please hold.",
        AssistantFallback(context))

\* Lines 205-210: no text gives null; the catch block logs and rethrows.
getSourceAttribution(o) ==
    IF o = Rejected THEN RejectedWith("getSourceAttribution", "model error")
    ELSE IF ~HasText(o.text) THEN Fulfilled("getSourceAttribution", "default", JsonNull)
    ELSE IF ParseThrows(o.text) THEN RejectedWith("getSourceAttribution", "SyntaxError")
    ELSE Fulfilled("getSourceAttribution", "model", JSONparse(o.text))

\* Lines 311-324: the plan is assembled from the parsed answer (or {}), each
\* missing field replaced by its default.
getMitigationPlan(o) ==
    IF o = Rejected \/ (HasText(o.text) /\ ParseThrows(o.text)) THEN
        Fulfilled("getMitigationPlan", "fallback",
            [summary |-> "Local analysis recommends immediate reduction in vehicular traffic.",
             priority |-> "High"])
    ELSE IF ~HasText(o.text) THEN
        Fulfilled("getMitigationPlan", "default",
            [summary |-> "Awaiting detailed analysis...", priority |-> "Medium"])
    ELSE Fulfilled("getMitigationPlan", "model", JSONparse(o.text))

\* Lines 372-385: no text throws inside the try block.
analyzeAtmosphereImage(o) ==
    IF o = Rejected \/ ~HasText(o.text) \/ ParseThrows(o.text) THEN
        Fulfilled("analyzeAtmosphereImage", "fallback",
            [detectedSource |-> "Signal Lost", confidenceScore |-> 0])
    ELSE Fulfilled("analyzeAtmosphereImage", "model", JSONparse(o.text))

assessHealthRisk(o) ==
    ParseOrDefault("assessHealthRisk", o,
        [dailyExposureRisk |-> "Moderate", recommendedOutdoorLimit |-> 60],
        [dailyExposureRisk |-> "High", recommendedOutdoorLimit |-> 0])

runDecisionOrchestrator(o) ==
    ParseOrDefault("runDecisionOrchestrator", o,
        [recommendedAction |-> "Maintain Vigilance", confidenceScore |-> 50],
        [recommendedAction |-> "System Offline", confidenceScore |-> 0])

getSimulationReport(o) ==
    TextOrDefault("getSimulationReport", o,
        "Simulation stable.", "Projection engine offline.")

getLiveGovUpdates(o) ==
    TextOrDefault("getLiveGovUpdates", o,
        "Standard protocols active.", "Standard GRAP 3 protocols remain active.")

getNearbySafeZones(o) ==
    TextOrDefault("getNearbySafeZones", o,
        "Searching for safe havens...", "Locating nearest parks manually...")

-----------------------------------------------------------------------------
(* getAqiForecast and its cache *)

\* Map.get and Map.set on the set of entries.
MapGet(map, key) ==
    IF \E e \in map : e.key = key
    THEN Some(CHOOSE e \in map : e.key = key) ELSE None
MapSet(map, key, data, timestamp) ==
    { e \in map : e.key # key }
    \cup { [key |-> key, data |-> data, timestamp |-> timestamp] }

\* String(x) of a number with at most one decimal, given in tenths.
TenthsToString(t) ==
    LET m == Abs(t)
        whole == (IF t < 0 THEN <<"-">> ELSE <<>>) \o NatToString(m \div 10)
    IN  IF m % 10 = 0 THEN whole ELSE whole \o <<".", Digits[(m % 10) + 1]>>

\* Line 215: `${Math.round(currentAqi / 5) * 5}_${Math.round(trendSlope * 10) / 10}`.
\* currentAqi is an integer, trendSlope a fraction.
cacheKey(currentAqi, trendSlope) ==
    NumberToString(Num(MathRound(<<currentAqi, 5>>) * 5)) \o <<"_">>
    \o TenthsToString(MathRound(RatMul(trendSlope, <<10, 1>>)))

\* Line 219.
ForecastCacheHit(cached, t) ==
    cached.has /\ t - cached.v.timestamp < FORECAST_CACHE_TTL

\* trendSlope.toFixed(2), in hundredths: the nearest, a tie going away from 0.
toFixed2(x) ==
    LET n == MathRound(<<Abs(x[1]) * 100, x[2]>>)
    IN  IF x[1] < 0 THEN 0 - n ELSE n

\* The projection without the floor at 0.
PredictedUnclamped(currentAqi, trendSlope, h) ==
    MathRound(RatAdd(<<currentAqi, 1>>, RatMul(trendSlope, <<h, 1>>)))

\* Line 268: Math.max(0, Math.round(currentAqi + trendSlope * h)).
Predicted(currentAqi, trendSlope, h) ==
    LET rounded == MathRound(RatAdd(<<currentAqi, 1>>, RatMul(trendSlope, <<h, 1>>)))
    IN  IF rounded < 0 THEN 0 ELSE rounded

\* The classification with the boundaries belonging to the higher class.
FallbackRiskInclusive(predicted) ==
    IF predicted >= 300 THEN "Extreme"
    ELSE IF predicted >= 200 THEN "High" ELSE "Medium"

\* Line 273.
FallbackRisk(predicted) ==
    IF predicted > 300 THEN "Extreme"
    ELSE IF predicted > 200 THEN "High" ELSE "Medium"

\* Lines 267-277.
FallbackForecast(currentAqi, trendSlope) ==
    [i \in 1..3 |->
        LET h == <<24, 48, 72>>[i]
            predicted == Predicted(currentAqi, trendSlope, h)
        IN  [hours |-> h,
             aqi |-> predicted,
             primaryPollutant |-> "PM2.5",
             riskLevel |-> FallbackRisk(predicted),
             confidence |-> 65,
             explanation |-> [slope |-> toFixed2(trendSlope)]]]

\* A forecast of the model for the prompt of lines 227-236, which carries
\* currentAqi and trendSlope.toFixed(2): the projection it is asked to apply,
\* refined by v.
ModelForecast(currentAqi, trendSlope, v) ==
    [i \in 1..3 |->
        LET h == <<24, 48, 72>>[i]
        IN  [hours |-> h,
             aqi |-> currentAqi + (toFixed2(trendSlope) * h) \div 100 + v,
             primaryPollutant |-> "PM10",
             riskLevel |-> "High",
             confidence |-> 80,
             explanation |-> [grounded |-> TRUE]]]

Refinements == {10}

ForecastJson(data) == [t |-> "json", shape |-> "forecast", data |-> data]

ForecastOutcomes(currentAqi, trendSlope) ==
    {Rejected}
    \cup { Answer(x) : x \in {Undefined, EmptyString, NotJson} }
    \cup { Answer(ForecastJson(ModelForecast(currentAqi, trendSlope, v))) :
             v \in Refinements }

\* Lines 257-263: the answer is usable when it has text and the text parses.
Usable(o) == o # Rejected /\ HasText(o.text) /\ ~ParseThrows(o.text)

\* The cache written whatever the call returns.
ForecastStoreAlways(map, key, o, data, t) == MapSet(map, key, data, t)

\* Line 260 is reached only with a parsed answer; the catch block writes
\* nothing.
ForecastStore(map, key, o, data, t) ==
    IF Usable(o) THEN MapSet(map, key, data, t) ELSE map

\* Lines 213-222: the key, now, the cache check; on a miss the request to the
\* model is issued.
ForecastCall(c, currentAqi, trendSlope) ==
    /\ pc[c] = "idle"
    /\ LET cached == MapGet(forecastCache, cacheKey(currentAqi, trendSlope))
       IN  IF ForecastCacheHit(cached, clock) THEN
               /\ ret' = [by |-> "getAqiForecast", state |-> "fulfilled",
                          path |-> "cache",
                          currentAqi |-> currentAqi, trendSlope |-> trendSlope,
                          now |-> clock, settled |-> clock,
                          value |-> cached.v.data]
               /\ UNCHANGED <<pc, now, args>>
           ELSE
               /\ pc' = [pc EXCEPT ![c] = "generate"]
               /\ now' = [now EXCEPT ![c] = clock]
               /\ args' = [args EXCEPT ![c] =
                              [currentAqi |-> currentAqi, trendSlope |-> trendSlope]]
               /\ UNCHANGED ret
    /\ UNCHANGED <<localStorage, clock, response, forecastCache>>

\* Lines 225-279: generateContent settles with o and the continuation runs:
\* the parsed answer is cached under the key of the call with the now of the
\* call and returned; anything else ends in the catch block.
HandleGenerate(c, o) ==
    /\ pc[c] = "generate"
    /\ LET currentAqi == args[c].currentAqi
           trendSlope == args[c].trendSlope
           data == IF Usable(o) THEN o.text.data
                   ELSE FallbackForecast(currentAqi, trendSlope)
       IN  /\ forecastCache' = ForecastStore(forecastCache,
                                   cacheKey(currentAqi, trendSlope), o, data, now[c])
           /\ ret' = [by |-> "getAqiForecast", state |-> "fulfilled",
                      path |-> IF Usable(o) THEN "model" ELSE "fallback",
                      currentAqi |-> currentAqi, trendSlope |-> trendSlope,
                      now |-> now[c], settled |-> clock,
                      value |-> data]
    /\ pc' = [pc EXCEPT ![c] = "idle"]
    /\ now' = [now EXCEPT ![c] = 0]
    /\ args' = [args EXCEPT ![c] = Undefined]
    /\ UNCHANGED <<localStorage, clock, response>>

\* The other entry points keep no state between their call and their
\* settlement: both are one step.
Invoke(settlement) ==
    /\ ret' = settlement
    /\ UNCHANGED <<localStorage, clock, pc, now, response, forecastCache, args>>

ServiceTick ==
    /\ clock < StartClock + MaxForecastTicks * TickMs
    /\ clock' = clock + TickMs
    /\ UNCHANGED <<localStorage, pc, now, response, ret, forecastCache, args>>

\* The readings and slopes the forecast is asked for: two pairs that differ
\* in both arguments and fall into the same buckets, one in another bucket.
ForecastInputs ==
    { <<148, <<13, 50>> >>, <<152, <<17, 50>> >>, <<310, <<13, 50>> >> }

InitService ==
    /\ localStorage = EmptyStorage
    /\ clock = StartClock
    /\ pc = [c \in Invocations |-> "idle"]
    /\ now = [c \in Invocations |-> 0]
    /\ response = [c \in Invocations |-> None]
    /\ args = [c \in Invocations |-> Undefined]
    /\ forecastCache = {}
    /\ ret = NoRet

NextService ==
    \/ \E c \in Invocations, i \in ForecastInputs : ForecastCall(c, i[1], i[2])
    \/ \E c \in Invocations :
          /\ pc[c] = "generate"
          /\ \E o \in ForecastOutcomes(args[c].currentAqi, args[c].trendSlope) :
                 HandleGenerate(c, o)
    \/ ServiceTick

SpecService == InitService /\ [][NextService]_vars

\* Every entry point of the service applied once, from an empty cache; the
\* forecast over readings and slopes whose projections reach every risk bin
\* and fall below 0.
EntryPointAqis == {48, 148, 152, 252, 310}
EntryPointSlopes == { <<0 - 3, 1>>, <<13, 50>>, <<17, 50>>, <<2, 1>> }

NextEntryPoints ==
    \/ \E currentAqi \in EntryPointAqis, trendSlope \in EntryPointSlopes :
          ret = NoRet /\ ForecastCall("first", currentAqi, trendSlope)
    \/ /\ pc["first"] = "generate"
       /\ \E o \in ForecastOutcomes(args["first"].currentAqi, args["first"].trendSlope) :
              HandleGenerate("first", o)
    \/ \E o \in ModelOutcomes :
          /\ ret = NoRet
          /\ \/ Invoke(getMitigationInsight(o))
             \/ \E context \in ChatContexts : Invoke(getAssistantResponse(context, o))
             \/ Invoke(getSourceAttribution(o))
             \/ Invoke(getMitigationPlan(o))
             \/ Invoke(analyzeAtmosphereImage(o))
             \/ Invoke(assessHealthRisk(o))
             \/ Invoke(runDecisionOrchestrator(o))
             \/ Invoke(getSimulationReport(o))
             \/ Invoke(getLiveGovUpdates(o))
             \/ Invoke(getNearbySafeZones(o))

SpecEntryPoints == InitService /\ [][NextEntryPoints]_vars

-----------------------------------------------------------------------------
(* Vocabulary of the properties *)

IsLiveAqiData(x) == "aqi" \in DOMAIN x
PositiveInteger(x) == x.k = "num" /\ x.v \in Nat \ {0}

\* A stored string that is the decimal numeral of a positive integer.
IsPosIntString(s) ==
    /\ s # <<>>
    /\ \A i \in 1..Len(s) : IsDigit(s[i])
    /\ s[1] # "0"

\* A stored string without any digit.
NonNumeric(s) == s # <<>> /\ \A i \in 1..Len(s) : ~IsDigit(s[i])

HasLive == CACHE_KEY \in DOMAIN localStorage
HasLastValid == LAST_VALID_AQI_KEY \in DOMAIN localStorage

\* The live slot holds a {data, timestamp} entry.
HasLiveEntry ==
    /\ HasLive
    /\ localStorage[CACHE_KEY].t = "json"
    /\ localStorage[CACHE_KEY].shape = "entry"

\* The positive integers among the readings of a bounds response.
ValidReadings(r) ==
    { parseInt(r.data[i]).v :
        i \in { j \in 1..Len(r.data) : PositiveInteger(parseInt(r.data[j])) } }

\* The single-feed response is well-formed JSON and carries no positive AQI.
NoPositiveFeed(r) ==
    /\ r.t = "json"
    /\ \/ r.status # "ok"
       \/ r.hasData /\ r.hasCity /\ ~PositiveInteger(parseInt(r.aqi))

\* Handling the single-feed response raises.
FeedRaises(r) ==
    \/ r \in Thrown
    \/ r.t = "json" /\ r.status = "ok" /\ (~r.hasData \/ ~r.hasCity)

IsOffline(x) ==
    IsLiveAqiData(x) /\ x.aqi = Num(345) /\ x.city = "Delhi (Offline Mode)"

-----------------------------------------------------------------------------
(* Properties *)

\* C1: starting from empty slots, every value a call resolves with is a
\* LiveAqiData whose aqi is a positive integer, whatever the two requests do.
C1_AqiAlwaysPositive ==
    ret.state = "fulfilled" =>
        IsLiveAqiData(ret.value) /\ PositiveInteger(ret.value.aqi)

\* Every upstream path failed on a first visit and the call still resolved.
C1_Witness ==
    /\ ret.state = "fulfilled"
    /\ ret.path = "resolved"
    /\ ret.requests = <<"bounds", "feed">>
    /\ ret.failsafe
    /\ ~ret.last.has
    /\ ret.value.aqi = Num(345)

\* C2: whatever the slots hold (absent, well-formed or malformed) and
\* whatever the requests do, the promise is fulfilled with a LiveAqiData and
\* is never rejected.
C2_NeverRejects ==
    /\ ret.state # "rejected"
    /\ ret.state = "fulfilled" => IsLiveAqiData(ret.value)

\* C3: a call made while the live slot holds an entry younger than ten
\* minutes with a positive aqi returns exactly the stored data, issues no
\* request and writes neither slot.
C3_CacheHitPath ==
    [][\A p \in Callers :
        ( /\ Call(p)
          /\ HasLiveEntry
          /\ clock - localStorage[CACHE_KEY].timestamp < 600000
          /\ localStorage[CACHE_KEY].data.aqi.v > 0 )
        => /\ ret'.by = p
           /\ ret'.state = "fulfilled"
           /\ ret'.value = localStorage[CACHE_KEY].data
           /\ ret'.requests = <<>>
           /\ ret'.writes = <<>>
           /\ pc'[p] = "idle"
           /\ localStorage' = localStorage]_vars

\* A call was served from an entry written five minutes earlier.
C3_Witness ==
    /\ ret.path = "cache"
    /\ ret.state = "fulfilled"
    /\ HasLive
    /\ ret.value = localStorage[CACHE_KEY].data
    /\ clock - localStorage[CACHE_KEY].timestamp = 300000

\* C4: when the bounds response has status ok and a station list with at
\* least one positive integer reading, the call resolves with the largest of
\* the positive readings, whatever their order; other readings are discarded.
C4_BoundsMaximum ==
    [][\A p \in Callers :
        HandleBounds(p) =>
            LET r == response[p].v
            IN  (r.t = "json" /\ r.status = "ok" /\ r.isArray /\ ValidReadings(r) # {})
                => /\ ret'.by = p
                   /\ ret'.path = "resolved"
                   /\ ret'.requests = <<"bounds">>
                   /\ PositiveInteger(ret'.value.aqi)
                   /\ ret'.value.aqi.v \in ValidReadings(r)
                   /\ \A m \in ValidReadings(r) : m <= ret'.value.aqi.v]_vars

\* A call resolved from the bounds request alone, with the reading 350.
C4_Witness ==
    /\ ret.path = "resolved"
    /\ ret.requests = <<"bounds">>
    /\ ret.value.aqi = Num(350)
    /\ ret.value.city = "Delhi NCT"

\* C5: a failed bounds request (network error, malformed body, non-ok
\* status) is treated as empty: the call goes on to the single-feed request,
\* and uses its AQI when that is positive.
C5_BoundsFailureFallsThrough ==
    [][\A p \in Callers :
        /\ HandleBounds(p) =>
            LET r == response[p].v
            IN  (r \in {NetworkError, BadBody} \/ (r.t = "json" /\ r.status # "ok"))
                => pc'[p] = "feed" /\ ret' = ret
        /\ HandleFeed(p) =>
            LET r == response[p].v
            IN  ( /\ r.t = "json" /\ r.status = "ok" /\ r.hasData /\ r.hasCity
                  /\ PositiveInteger(parseInt(r.aqi)) )
                => ret'.by = p /\ ret'.value.aqi = parseInt(r.aqi)]_vars

\* C6: when both requests complete without a positive AQI, the call resolves
\* with the durable value if the slot is present and with 345 if it is absent.
C6_Failsafe ==
    [][\A p \in Callers :
        (HandleFeed(p) /\ NoPositiveFeed(response[p].v))
        => /\ ret'.by = p
           /\ ret'.state = "fulfilled"
           /\ ret'.value.aqi =
                IF HasLastValid THEN parseInt(localStorage[LAST_VALID_AQI_KEY])
                ELSE Num(345)]_vars

\* The failsafe returned a durable value that is not the constant.
C6_Witness ==
    /\ ret.path = "resolved"
    /\ ret.failsafe
    /\ ret.last.has
    /\ ret.value.aqi = Num(95)

\* C7: on every failure path without a live entry, throwing ones included, a
\* present durable value is what the call returns.
C7_LastValidOnEveryFailurePath ==
    [][\A p \in Callers :
        ( /\ \/ HandleBounds(p) /\ response[p].v \in Thrown
             \/ /\ HandleFeed(p)
                /\ FeedRaises(response[p].v) \/ NoPositiveFeed(response[p].v)
          /\ ~HasLive
          /\ HasLastValid
          /\ IsPosIntString(localStorage[LAST_VALID_AQI_KEY]) )
        => /\ ret'.by = p
           /\ ret'.value.aqi = parseInt(localStorage[LAST_VALID_AQI_KEY])]_vars

\* C8: when a step after the cache check raises, the call returns the data of
\* the entry in the live slot, however old, and the offline value when the
\* slot is empty.
C8_ExceptionPath ==
    [][\A p \in Callers :
        ( \/ HandleBounds(p) /\ response[p].v \in Thrown
          \/ HandleFeed(p) /\ FeedRaises(response[p].v) )
        => /\ ret'.by = p
           /\ ret'.state = "fulfilled"
           /\ IF HasLive THEN ret'.value = localStorage[CACHE_KEY].data
              ELSE IsOffline(ret'.value)
           /\ localStorage' = localStorage]_vars

\* A stale entry was served after an exception.
C8_Witness ==
    /\ ret.path = "caught"
    /\ HasLive
    /\ clock - localStorage[CACHE_KEY].timestamp >= 600000
    /\ ret.value = localStorage[CACHE_KEY].data

\* C9: with a non-numeric string in lastValid and no positive AQI from either
\* request, the call resolves with 345 and writes a positive integer to
\* lastValid and to the live entry.
C9_MalformedLastValidIsAMiss ==
    [][\A p \in Callers :
        ( /\ HandleFeed(p)
          /\ NoPositiveFeed(response[p].v)
          /\ HasLastValid
          /\ NonNumeric(localStorage[LAST_VALID_AQI_KEY]) )
        => /\ ret'.value.aqi = Num(345)
           /\ IsPosIntString(localStorage'[LAST_VALID_AQI_KEY])
           /\ PositiveInteger(localStorage'[CACHE_KEY].data.aqi)]_vars

\* C10: after a call that resolved through steps 2-5, two writes were made,
\* lastValid then live; lastValid reads back as the returned aqi and the live
\* slot holds exactly the returned LiveAqiData and a timestamp.
C10_WriteThrough ==
    ret.path = "resolved" =>
        /\ ret.writes = <<LAST_VALID_AQI_KEY, CACHE_KEY>>
        /\ HasLastValid
        /\ parseInt(localStorage[LAST_VALID_AQI_KEY]) = ret.value.aqi
        /\ HasLive
        /\ localStorage[CACHE_KEY].shape = "entry"
        /\ localStorage[CACHE_KEY].data = ret.value
        /\ localStorage[CACHE_KEY].timestamp <= clock

\* The single-feed fallback resolved and was written through.
C10_Witness ==
    /\ ret.path = "resolved"
    /\ ret.requests = <<"bounds", "feed">>
    /\ ~ret.failsafe
    /\ parseInt(localStorage[LAST_VALID_AQI_KEY]) = ret.value.aqi
    /\ localStorage[CACHE_KEY].data = ret.value

\* The value calculateIntelligence returned last, and what it was given.
Analysed == ret.by = "calculateIntelligence"
HourOfDay == clock \div 3600000

\* C11: trend is stable when no previous value is stored; otherwise, with
\* delta = aqi - previous, it is worsening iff delta > 5, improving iff
\* delta < -5 and stable for -5 <= delta <= 5.
C11_TrendRule ==
    Analysed =>
        IF ~HasLastValid THEN ret.value.trend = "stable"
        ELSE LET delta == ret.aqi - parseInt(localStorage[LAST_VALID_AQI_KEY]).v
             IN  /\ ret.value.trend = "worsening" <=> delta > 5
                 /\ ret.value.trend = "improving" <=> delta < -5
                 /\ ret.value.trend = "stable" <=> (-5 <= delta /\ delta <= 5)

\* aqi 350 against a previous 300 came out as worsening.
C11_Witness ==
    /\ Analysed
    /\ ret.aqi = 350
    /\ HasLastValid
    /\ localStorage[LAST_VALID_AQI_KEY] = <<"3", "0", "0">>
    /\ ret.value.trend = "worsening"

\* C12: when a call resolves an aqi a through steps 2-5 and the lastValid
\* slot held p before the call's writes, the returned trend is worsening if
\* a - p > 5, improving if a - p < -5 and stable otherwise.
C12_LastValidIsTrendBaseline ==
    [][\A p \in Callers :
        ( /\ HandleBounds(p) \/ HandleFeed(p)
          /\ pc'[p] = "idle"
          /\ ret'.path = "resolved"
          /\ HasLastValid
          /\ IsPosIntString(localStorage[LAST_VALID_AQI_KEY]) )
        => LET a == ret'.value.aqi.v
               prev == parseInt(localStorage[LAST_VALID_AQI_KEY]).v
           IN  ret'.value.intelligence.trend =
                   IF a - prev > 5 THEN "worsening"
                   ELSE IF a - prev < -5 THEN "improving"
                   ELSE "stable"]_vars

\* C13: at every hour and for every trend, prediction is increasing iff the
\* hour is in 22..23 or 0..9 and the trend is not improving; otherwise
\* decreasing iff the hour is in 12..17; otherwise stable.
C13_PredictionRule ==
    Analysed =>
        LET night == HourOfDay \in {22, 23} \cup 0..9
            rising == night /\ ret.value.trend # "improving"
        IN  /\ ret.value.prediction = "increasing" <=> rising
            /\ ret.value.prediction = "decreasing" <=> (~rising /\ HourOfDay \in 12..17)
            /\ ret.value.prediction = "stable" <=> (~rising /\ HourOfDay \notin 12..17)
            /\ HourOfDay \in {10, 11} \cup 18..21 => ret.value.prediction = "stable"

\* A night hour with an improving trend came out as stable.
C13_Witness ==
    /\ Analysed
    /\ HourOfDay = 3
    /\ ret.value.trend = "improving"
    /\ ret.value.prediction = "stable"

\* C14: the exposure tiers are ordered, non-overlapping bins: aqi > 300 gives
\* 0 minutes, N95/N99 mandatory and remote learning; 200 < aqi <= 300 gives
\* 15 minutes; 150 < aqi <= 200 gives 30; 100 < aqi <= 150 gives 60;
\* aqi <= 100 gives unlimited exposure, no mask required and school open.
C14_ExposureTiers ==
    Analysed =>
        LET a == ret.aqi
            v == ret.value
        IN  /\ v.exposureMinutes = "0" <=> a > 300
            /\ v.exposureMinutes = "15" <=> (200 < a /\ a <= 300)
            /\ v.exposureMinutes = "30" <=> (150 < a /\ a <= 200)
            /\ v.exposureMinutes = "60" <=> (100 < a /\ a <= 150)
            /\ v.exposureMinutes = "Unlimited" <=> a <= 100
            /\ a > 300 => /\ v.recommendation.mask = "N95/N99 Mandatory"
                          /\ v.recommendation.school = "Remote Learning Recommended"
            /\ a <= 100 => /\ v.recommendation.mask = "None required"
                           /\ v.recommendation.school = "Open"

\* The upper edge of the 15 minute tier.
C14_Witness ==
    /\ Analysed
    /\ ret.aqi = 300
    /\ ret.value.exposureMinutes = "15"

\* The engine was given aqi 100 with 150 stored as the previous value, at
\* 14 o'clock.
Example100Against150At14 ==
    /\ Analysed
    /\ ret.aqi = 100
    /\ HasLastValid
    /\ localStorage[LAST_VALID_AQI_KEY] = <<"1", "5", "0">>
    /\ HourOfDay = 14

\* C15 as stated: aqi 100, previous 150, hour 14 give trend improving,
\* prediction decreasing, an exposure limit of 60 minutes and GRAP stage 0.
C15_ExampleSixtyMinutes ==
    Example100Against150At14 =>
        /\ ret.value.trend = "improving"
        /\ ret.value.prediction = "decreasing"
        /\ ret.value.exposureMinutes = "60"
        /\ ret.value.grap.stage = 0

\* C15 as amended: aqi 100, previous 150, hour 14 give trend improving,
\* prediction decreasing, unlimited exposure (100 is not above 100) and GRAP
\* stage 0.
C15_ExampleUnlimited ==
    Example100Against150At14 =>
        /\ ret.value.trend = "improving"
        /\ ret.value.prediction = "decreasing"
        /\ ret.value.exposureMinutes = "Unlimited"
        /\ ret.value.grap.stage = 0

\* The example was evaluated.
C15_Witness ==
    /\ Example100Against150At14
    /\ ret.value.riskLevel = "GOOD"
    /\ ret.value.recommendation.mask = "None required"

\* Label and description of each GRAP stage.
GrapTexts ==
    [stage \in 0..4 |->
        CASE stage = 0 -> <<"No GRAP Active", "Standard Pollution Control Measures">>
          [] stage = 1 -> <<"GRAP Stage I", "Poor: Dust Control, Mechanized Sweeping">>
          [] stage = 2 -> <<"GRAP Stage II",
                            "Very Poor: Diesel Gen Set Ban, Parking Fee Hike">>
          [] stage = 3 -> <<"GRAP Stage III", "Severe: Construction & Demolition Ban">>
          [] stage = 4 -> <<"GRAP Stage IV",
                            "Severe+: Truck Entry Ban, Odd-Even Scheme">>]

\* C16: every integer aqi maps to exactly one stage in 0..4 (>= 450: 4;
\* 401..449: 3; 301..400: 2; 201..300: 1; <= 200: 0), the stage does not
\* decrease when the aqi increases, and a stage always carries the same label
\* and description.
C16_GrapStaging ==
    Analysed =>
        LET a == ret.aqi
            g == ret.value.grap
        IN  /\ g.stage \in 0..4
            /\ g.stage = 4 <=> a >= 450
            /\ g.stage = 3 <=> (401 <= a /\ a <= 449)
            /\ g.stage = 2 <=> (301 <= a /\ a <= 400)
            /\ g.stage = 1 <=> (201 <= a /\ a <= 300)
            /\ g.stage = 0 <=> a <= 200
            /\ \A b \in AqiInputs : b >= a => getGRAPStage(Num(b)).stage >= g.stage
            /\ <<g.label, g.description>> = GrapTexts[g.stage]

\* The lower edge of stage IV.
C16_Witness ==
    /\ Analysed
    /\ ret.aqi = 450
    /\ ret.value.grap.stage = 4
    /\ ret.value.grap.label = "GRAP Stage IV"

\* C17: risk level bins with exclusive lower bounds: aqi > 450 hazardous;
\* (400,450] severe; (300,400] poor (very poor); (200,300] poor; (100,200]
\* moderate; aqi <= 100 good; every aqi has exactly one level.
C17_RiskLevelBins ==
    Analysed =>
        LET a == ret.aqi
            level == ret.value.riskLevel
        IN  /\ level \in {"HAZARDOUS", "SEVERE", "POOR", "MODERATE", "GOOD"}
            /\ level = "HAZARDOUS" <=> a > 450
            /\ level = "SEVERE" <=> (400 < a /\ a <= 450)
            /\ level = "POOR" <=> (200 < a /\ a <= 400)
            /\ level = "MODERATE" <=> (100 < a /\ a <= 200)
            /\ level = "GOOD" <=> a <= 100

\* The upper edge of the severe bin.
C17_Witness ==
    /\ Analysed
    /\ ret.aqi = 450
    /\ ret.value.riskLevel = "SEVERE"
    /\ ret.value.grap.stage = 4

Interpolated == ret.by = "interpolateWardAQI"

\* C18: on an empty station list interpolateWardAQI returns aqi 150 with the
\* nearest label 'Historical Node', for every centroid, and does not raise.
C18_EmptyStationSet ==
    (Interpolated /\ Len(ret.stations) = 0) =>
        /\ ret.state = "returned"
        /\ ret.value = [aqi |-> 150, nearest |-> "Historical Node"]

\* The default was returned for a centroid away from the origin.
C18_Witness ==
    /\ Interpolated
    /\ ret.stations = <<>>
    /\ ret.wardCentroid = <<2, 1>>
    /\ ret.value.aqi = 150

\* C19: on a list of exactly one station interpolateWardAQI returns that
\* station's aqi and its name as nearest, for every centroid and station
\* position, a station on the centroid included.
C19_SingleStation ==
    (Interpolated /\ Len(ret.stations) = 1) =>
        /\ ret.value.aqi = ret.stations[1].aqi
        /\ ret.value.nearest = ret.stations[1].stationName

\* A single station lying on the centroid.
C19_Witness ==
    /\ Interpolated
    /\ Len(ret.stations) = 1
    /\ ret.wardCentroid = <<ret.stations[1].lat, ret.stations[1].lon>>
    /\ ret.value.aqi = 95

Sloped == ret.by = "calculateTrendSlope"

\* The series rises by k at every step.
IsArithmetic(history, k) ==
    \A i \in 1..(Len(history) - 1) : history[i + 1].aqi - history[i].aqi = k

\* C20: calculateTrendSlope returns 0 for a series of fewer than 2 points,
\* and exactly k for an arithmetic series of at least 2 points with step k
\* (0 for a constant series).
C20_SlopeOfArithmeticSeries ==
    Sloped =>
        /\ Len(ret.history) < 2 => ret.value[1] = 0
        /\ Len(ret.history) >= 2 =>
            LET k == ret.history[2].aqi - ret.history[1].aqi
            IN  IsArithmetic(ret.history, k) =>
                    ret.value[2] # 0 /\ ret.value[1] = k * ret.value[2]

\* 100, 110, 120 gave 10.
C20_Witness ==
    /\ Sloped
    /\ ret.history = <<[aqi |-> 100], [aqi |-> 110], [aqi |-> 120]>>
    /\ ret.value[1] = 10 * ret.value[2]

-----------------------------------------------------------------------------
(* Properties of the forecast cache *)

Forecast == ret.by = "getAqiForecast"

\* Math.round(x / 5) * 5 = m, and Math.round(s * 10) / 10 = t / 10, said by
\* the distance of the argument from the value it rounds to.
RoundsToMultipleOf5(x, m) ==
    m % 5 = 0 /\ 2 * m - 5 <= 2 * x /\ 2 * x < 2 * m + 5
RoundsToTenth(s, t) ==
    (2 * t - 1) * s[2] <= 20 * s[1] /\ 20 * s[1] < (2 * t + 1) * s[2]

\* The two readings round to one multiple of 5 and the two slopes to one
\* tenth: the multiple and the tenth are those next to the first reading
\* and slope.
SameBuckets(aqi1, slope1, aqi2, slope2) ==
    LET m == 5 * ((2 * aqi1 + 5) \div 10)
        t == (20 * slope1[1] + slope1[2]) \div (2 * slope1[2])
    IN  /\ RoundsToMultipleOf5(aqi1, m) /\ RoundsToMultipleOf5(aqi2, m)
        /\ RoundsToTenth(slope1, t) /\ RoundsToTenth(slope2, t)

\* C21: a getAqiForecast call whose arguments fall into the same AQI and
\* slope buckets as those of the call that last settled, when that call
\* stored a result of the model less than 15 minutes before, returns the
\* stored result and issues no request to the model.
C21_StoredWithinTtlIsServed ==
    [][\A c \in Invocations, i \in ForecastInputs :
          ( /\ ForecastCall(c, i[1], i[2])
            /\ ret.path = "model"
            /\ SameBuckets(ret.currentAqi, ret.trendSlope, i[1], i[2])
            /\ clock - ret.settled < FORECAST_CACHE_TTL )
          => (ret'.path = "cache" /\ ret'.value = ret.value /\ pc' = pc)]_vars

\* The outcomes of the model that give getAqiForecast nothing to parse.
FailedOutcomes == {Rejected, Answer(Undefined), Answer(EmptyString), Answer(NotJson)}

\* n = Math.round(num / den), said by the distance of n from num / den.
IsRoundOf(n, num, den) ==
    2 * n * den - den <= 2 * num /\ 2 * num < 2 * n * den + den

\* r is a settled getAqiForecast call that returned three projections for 24,
\* 48 and 72 hours, each of max(0, round(currentAqi + slope * hours)), all
\* with one confidence. num is the numerator of currentAqi + slope * hours:
\* the aqi is its rounding, or 0 when it rounds to less than 0.
IsLinearFallback(r) ==
    /\ r.by = "getAqiForecast"
    /\ r.state = "fulfilled"
    /\ DOMAIN r.value = 1..3
    /\ \A i \in 1..3 :
          LET p == r.value[i]
              num == r.currentAqi * r.trendSlope[2] + r.trendSlope[1] * p.hours
          IN  /\ p.hours = 24 * i
              /\ p.aqi >= 0
              /\ \/ IsRoundOf(p.aqi, num, r.trendSlope[2])
                 \/ p.aqi = 0 /\ 2 * num < 0 - r.trendSlope[2]
              /\ p.confidence = r.value[1].confidence

RiskBoundaries == {100, 200, 300, 400, 450}
RiskBin(aqi) == Cardinality({ b \in RiskBoundaries : aqi > b })

C24_NoEntryPointRejects ==
    ret.by \in { "getMitigationInsight", "getAssistantResponse",
                 "getSourceAttribution", "getAqiForecast", "getMitigationPlan",
                 "analyzeAtmosphereImage", "assessHealthRisk",
                 "runDecisionOrchestrator", "getSimulationReport",
                 "getLiveGovUpdates", "getNearbySafeZones" }
        => ret.state = "fulfilled"

-----------------------------------------------------------------------------
(* Properties of the order of steps inside fetchLiveCityAQI *)

\* C25: a call made when the live entry is 10 minutes old or older, or holds
\* an aqi that is not above 0, does not return at the cache check: it settles
\* nothing and waits for the bounds request; and every call that settles
\* otherwise than at the cache check has issued the bounds request first.
C25_ExpiryForcesRefetch ==
    [][/\ \A p \in Callers :
            ( /\ Call(p)
              /\ HasLiveEntry
              /\ \/ clock - localStorage[CACHE_KEY].timestamp >= 600000
                 \/ localStorage[CACHE_KEY].data.aqi.v <= 0 )
            => (ret' = ret /\ pc'[p] = "bounds" /\ localStorage' = localStorage)
       /\ (ret' # ret /\ ret'.path # "cache")
            => (ret'.requests # <<>> /\ ret'.requests[1] = "bounds")]_vars

\* The bounds request of a call made at exactly 10 minutes of age is pending.
C25_Witness ==
    /\ HasLiveEntry
    /\ \E p \in Callers :
          /\ pc[p] = "bounds"
          /\ now[p] - localStorage[CACHE_KEY].timestamp = 600000
          /\ localStorage[CACHE_KEY].data.aqi.v > 0

\* The bounds response r gives at least one valid station.
YieldsStation(r) ==
    r.t = "json" /\ r.status = "ok" /\ r.isArray /\ ValidReadings(r) # {}

\* C26: within one call the single-feed request is issued only by the
\* continuation of a bounds request that completed without a valid station;
\* a bounds response with a valid station settles the call with the bounds
\* request as its only request; the failsafe is taken only by the
\* continuation of the single-feed request, after both requests; so the two
\* requests of a call are never pending together.
C26_SequentialChain ==
    [][\A p \in Callers :
          /\ (pc[p] # "feed" /\ pc'[p] = "feed")
                => /\ HandleBounds(p)
                   /\ response[p].v.t = "json"
                   /\ ~YieldsStation(response[p].v)
          /\ (HandleBounds(p) /\ YieldsStation(response[p].v))
                => /\ pc'[p] = "idle"
                   /\ ret'.by = p
                   /\ ret'.requests = <<"bounds">>
          /\ (ret' # ret /\ ret'.by = p /\ ret'.failsafe)
                => /\ HandleFeed(p)
                   /\ ret'.requests = <<"bounds", "feed">>]_vars

\* After a call that the bounds request alone resolved, the single-feed
\* request of a later call is pending.
C26_Witness ==
    /\ ret.path = "resolved"
    /\ ret.requests = <<"bounds">>
    /\ \E p \in Callers : pc[p] = "feed" /\ ~response[p].has

-----------------------------------------------------------------------------
(* Properties of overlapping calls *)

\* C27: whatever the interleaving of overlapping calls, a step that changes
\* the store is the settlement of one call that wrote lastValid and then the
\* live entry, both from its own result; so, from empty slots, whenever the
\* live entry is present lastValid is present too and is the decimal numeral
\* of the entry's data.aqi.
C27_WritesOfOneCallTogether ==
    [][/\ localStorage' # localStorage
            => /\ ret'.path = "resolved"
               /\ ret'.writes = <<LAST_VALID_AQI_KEY, CACHE_KEY>>
               /\ pc[ret'.by] # "idle" /\ pc'[ret'.by] = "idle"
               /\ localStorage'[LAST_VALID_AQI_KEY] = NumberToString(ret'.value.aqi)
               /\ localStorage'[CACHE_KEY].data = ret'.value
       /\ (CACHE_KEY \in DOMAIN localStorage')
            => /\ LAST_VALID_AQI_KEY \in DOMAIN localStorage'
               /\ localStorage'[CACHE_KEY].t = "json"
               /\ localStorage'[CACHE_KEY].shape = "entry"
               /\ parseInt(localStorage'[LAST_VALID_AQI_KEY])
                    = localStorage'[CACHE_KEY].data.aqi]_vars

\* Two calls overlap: the one that started later has settled and both slots
\* hold its reading, while the one that started first is still waiting.
C27_Witness ==
    /\ HasLiveEntry /\ HasLastValid
    /\ ret.path = "resolved"
    /\ localStorage[CACHE_KEY].data = ret.value
    /\ localStorage[LAST_VALID_AQI_KEY] = NumberToString(ret.value.aqi)
    /\ \E q \in Callers :
          /\ q # ret.by
          /\ pc[q] # "idle"
          /\ now[q] < localStorage[CACHE_KEY].timestamp

-----------------------------------------------------------------------------
(* Properties of the returned LiveAqiData *)

\* C28: the status of every LiveAqiData a call is fulfilled with is the risk
\* level of its aqi, and is the riskLevel of its intelligence.
C28_StatusIsRiskLevel ==
    (ret.by \in Callers /\ ret.state = "fulfilled" /\ IsLiveAqiData(ret.value))
        => /\ ret.value.status = getStatusFromAQI(ret.value.aqi)
           /\ ret.value.status = ret.value.intelligence.riskLevel

\* C29: the timestamp of the live entry never decreases from one write to the
\* next, and the timestamp a call writes is not earlier than the time at
\* which the response it resolves from was received, which is the time of
\* the write.
C29_TimestampNeverBehind ==
    [][(localStorage' # localStorage /\ CACHE_KEY \in DOMAIN localStorage')
          => /\ HasLiveEntry
                  => localStorage'[CACHE_KEY].timestamp
                        >= localStorage[CACHE_KEY].timestamp
             /\ localStorage'[CACHE_KEY].timestamp >= clock]_vars

-----------------------------------------------------------------------------
(* Properties of what the forecast cache holds *)

\* data is the forecast of lines 267-277: the local projection.
IsLocalProjection(data) ==
    \A i \in DOMAIN data :
        data[i].confidence = 65 /\ "slope" \in DOMAIN data[i].explanation

FreshEntries(key) ==
    { e \in forecastCache : e.key = key /\ clock - e.timestamp < FORECAST_CACHE_TTL }

\* C30: a call that ends in the fallback leaves the forecast cache as it was;
\* no entry is a local projection, and every entry is stamped with the start
\* of the call that stored it; a call invokes the model only when no entry of its
\* buckets is less than 15 minutes past that start, and is served from the
\* cache only with the data of such an entry: in particular a call in the
\* buckets of the call that last settled is served that call's result if it
\* came from the model and the call began less than 15 minutes before.
C30_OnlyModelResultsCached ==
    [][/\ forecastCache' # forecastCache
             => \A e \in forecastCache' : ~IsLocalProjection(e.data)
       /\ \A c \in Invocations :
             /\ (pc[c] = "generate" /\ pc'[c] = "idle")
                   => IF ret'.path = "fallback"
                      THEN forecastCache' = forecastCache
                      ELSE \E e \in forecastCache' :
                              /\ e.data = ret'.value
                              /\ e.timestamp = now[c]
                              /\ forecastCache' \ {e} \subseteq forecastCache
             /\ (pc[c] = "idle" /\ pc'[c] = "generate")
                   => /\ ret' = ret /\ forecastCache' = forecastCache
                      /\ FreshEntries(cacheKey(args'[c].currentAqi,
                                               args'[c].trendSlope)) = {}
                      /\ ( /\ ret.path = "model"
                           /\ SameBuckets(ret.currentAqi, ret.trendSlope,
                                          args'[c].currentAqi, args'[c].trendSlope) )
                            => clock - ret.now >= FORECAST_CACHE_TTL
       /\ (ret' # ret /\ ret'.path = "cache")
             => /\ pc' = pc /\ forecastCache' = forecastCache
                /\ \E e \in FreshEntries(cacheKey(ret'.currentAqi, ret'.trendSlope)) :
                      ret'.value = e.data
                /\ ( /\ ret.path = "model"
                     /\ SameBuckets(ret.currentAqi, ret.trendSlope,
                                    ret'.currentAqi, ret'.trendSlope) )
                      => ret'.value = ret.value]_vars

\* A call ended in the fallback and left the cache empty; a call in the same
\* buckets, with other arguments, made after it is waiting for the model.
C30_Witness ==
    /\ Forecast /\ ret.path = "fallback"
    /\ forecastCache = {}
    /\ \E c \in Invocations :
          /\ pc[c] = "generate"
          /\ now[c] > ret.settled
          /\ args[c].currentAqi # ret.currentAqi
          /\ SameBuckets(ret.currentAqi, ret.trendSlope,
                         args[c].currentAqi, args[c].trendSlope)

====
